---- MODULE Spec2Model ----
(***************************************************************************)
(* Frame synchronization and sequencing core of the mcmot pipeline:        *)
(* FrameSyncTimestampService, FrameSyncNumberService, FrameSyncService,    *)
(* FrameSequencingService, FrameCache and the MessageConsumer loop.        *)
(*                                                                         *)
(* Time is counted in integer ticks of 1/TicksPerSec seconds; every        *)
(* timestamp, entry time, delay and tolerance is a number of ticks.        *)
(***************************************************************************)
EXTENDS Integers, Sequences, FiniteSets, TLC

\* ------------------------------------------------------------------ bounds
MaxCollects == 4        \* collect calls per behaviour of the synchronizer
MaxTs == 2              \* largest frame_timestamp offered (ticks)
MaxFrameNumber == 2     \* largest frame_number offered
MaxNow == 2             \* last value of the wall clock (ticks)
MaxDelivered == 3       \* callback invocations recorded per behaviour
MaxAdds == 5            \* add_frame calls per behaviour of the frame cache
MaxMessages == 3        \* messages produced on the inbound topic per behaviour
MaxCaptures == 4        \* capture messages the tracker's capture feed handles
MaxDetections == 2      \* detection messages the tracker's detection feed handles
max_size == 3           \* FrameCache.max_size, scaled down from its default
MaxSeqCollects == 3     \* collect calls per behaviour of a sequencer called alone
MaxSeqGroups == 2       \* collect_group calls per behaviour of that sequencer
MaxSignals == 4         \* control signals a CaptureCallback receives per behaviour
max_workers == 5        \* ThreadPoolExecutor(max_workers=5)

TicksPerSec == 2        \* resolution of the model clock
Absent == -1            \* a dict key that is missing (dict.get gives None)

Cameras == {"A", "B", "C"}
CameraOrder == <<"A", "B", "C">>
Timestamps == 0..MaxTs
FrameNumbers == 1..MaxFrameNumber
FpsValues == {1, 2}

VARIABLES
    sync_type,            \* FrameSyncService.sync_type
    fps,                  \* service.fps
    tolerance,            \* FrameSyncTimestampService.tolerance (ticks)
    retention_time,       \* service.retention_time (ticks)
    latency_threshold,    \* FrameSyncTimestampService.latency_threshold (ticks)
    initial_camera_data,  \* service.initial_camera_data
    current_camera_data,  \* service.current_camera_data
    frames_buffer,        \* service.frames_buffer
    frame_seq,            \* service.frame_seq (a FrameSequencingService)
    sync_raised,          \* the exception the last synchronizer call left with
    delivered,            \* groups handed to callback.callback, in order
    pass_log,             \* what the last synchronize pass saw and did
    next_id,              \* identity of the next collected record
    now,                  \* time.time()
    cache,                \* FrameCache.cache: camera_id -> per-camera cache
    cache_log,            \* the last FrameCache operation and what it returned
    cfg,                  \* MessageConsumer.frame_sync_config and .key
    bus,                  \* the topic, the consumer's position and committed offset
    loop,                 \* the local variables of MessageConsumer.start
    frame_sequencing,     \* start's FrameSequencingService
    threads,              \* the threads start has spawned
    processed,            \* single messages handed to callback.callback, in order
    fed,                  \* per camera: frames produced and the tick of the last one
    tracker,              \* the tracker's two feed threads working on the shared cache
    seq_call,             \* the FrameSequencingService call made last, or blocked
    capture               \* a CaptureCallback: status, executor tasks, signals handled

syncVars == <<sync_type, fps, tolerance, retention_time, latency_threshold,
              initial_camera_data, current_camera_data, frames_buffer, frame_seq,
              sync_raised, delivered, pass_log, next_id>>

cacheVars == <<cache, cache_log>>

loopVars == <<cfg, bus, loop, frame_sequencing, threads, processed, fed>>

auxVars == <<seq_call, capture>>

vars == <<syncVars, now, cacheVars, loopVars, tracker, auxVars>>

\* ------------------------------------------------------------ Python values
\* Truth value of entry.get("grouped"): None, False and 0 are falsy.
Truthy(v) == v # Absent /\ v # 0

Abs(x) == IF x < 0 THEN 0 - x ELSE x

Min2(a, b) == IF a < b THEN a ELSE b

SeqRange(s) == {s[i] : i \in 1..Len(s)}

RECURSIVE SeqMin(_)
SeqMin(s) == IF Len(s) = 1 THEN s[1] ELSE Min2(s[1], SeqMin(Tail(s)))

RECURSIVE Concat(_)
Concat(ss) == IF ss = <<>> THEN <<>> ELSE Head(ss) \o Concat(Tail(ss))

\* ------------------------------------------------- FrameSequencingService
\* A sequencer object: the three buffers and the time of the last pass.
NewSequencer(duration, t) ==
    [duration |-> duration, temp_buffer |-> <<>>, frames_buffer |-> <<>>,
     grouped_frames_buffer |-> <<>>, last_sequence_time |-> t, lock |-> "free"]

collect_group(s, group_frame) ==
    [s EXCEPT !.grouped_frames_buffer = Append(@, group_frame)]

\* sorted(list, key=frame_timestamp): a stable insertion sort.
RECURSIVE InsertByTs(_, _)
InsertByTs(sorted, x) ==
    IF sorted = <<>> THEN <<x>>
    ELSE IF x.frame_timestamp < Head(sorted).frame_timestamp
         THEN <<x>> \o sorted
         ELSE <<Head(sorted)>> \o InsertByTs(Tail(sorted), x)

RECURSIVE SortedByTs(_)
SortedByTs(s) ==
    IF s = <<>> THEN <<>>
    ELSE InsertByTs(SortedByTs(SubSeq(s, 1, Len(s) - 1)), s[Len(s)])

\* sequence() that leaves frames_buffer as it was.
sequence_NoClear(s) ==
    [s EXCEPT !.temp_buffer = SortedByTs(s.frames_buffer)]

\* sequence() that moves frames_buffer to temp_buffer without sorting it.
sequence_Unsorted(s) ==
    [s EXCEPT !.temp_buffer = s.frames_buffer, !.frames_buffer = <<>>]

\* sequence(): sorts frames_buffer (the single-frame buffer) into temp_buffer
\* and clears it; grouped_frames_buffer is not touched.
sequence(s) ==
    [s EXCEPT !.temp_buffer = SortedByTs(s.frames_buffer),
              !.frames_buffer = <<>>]

\* collect(frame_metadata, camera_id, message=message): reads
\* frame_metadata["frame_timestamp"] and appends an entry to frames_buffer.
collect(s, frame_timestamp, camera_id, message) ==
    [s EXCEPT !.frames_buffer = Append(@, [frame_timestamp |-> frame_timestamp,
                                           camera_id |-> camera_id,
                                           message |-> message])]

\* next(): pops the first entry of temp_buffer and returns its message; None
\* (<<>>) when temp_buffer is empty.
next(s) ==
    IF s.temp_buffer = <<>>
    THEN [msg |-> <<>>, seq |-> s]
    ELSE [msg |-> <<Head(s.temp_buffer).message>>,
          seq |-> [s EXCEPT !.temp_buffer = Tail(@)]]

\* next_group popping the last group instead of the first.
next_group_Last(s) ==
    IF s.grouped_frames_buffer = <<>>
    THEN [msg |-> <<>>, seq |-> s]
    ELSE [msg |-> s.grouped_frames_buffer[Len(s.grouped_frames_buffer)],
          seq |-> [s EXCEPT !.grouped_frames_buffer = SubSeq(@, 1, Len(@) - 1)]]

\* next_group(): pops the first group, None (<<>>) when there is none.
next_group(s) ==
    IF s.grouped_frames_buffer = <<>>
    THEN [msg |-> <<>>, seq |-> s]
    ELSE [msg |-> Head(s.grouped_frames_buffer),
          seq |-> [s EXCEPT !.grouped_frames_buffer = Tail(@)]]

\* msg = next_group(); while msg: callback(msg); msg = next_group()
\* The groups handed to the callback, in order, and the sequencer left behind.
RECURSIVE DrainGroups(_, _)
DrainGroups(s, out) ==
    LET r == next_group(s) IN
    IF r.msg = <<>> THEN [out |-> out, seq |-> r.seq]
    ELSE DrainGroups(r.seq, Append(out, r.msg))

\* ----------------------------------------------------------------- records
\* The part of a buffered frame a callback sees (the frame dict without marks).
Frame(e) == [id |-> e.id, camera_id |-> e.camera_id,
             frame_timestamp |-> e.frame_timestamp, frame_number |-> e.frame_number]

GroupOf(buf, idxs) == [k \in 1..Len(idxs) |-> Frame(buf[idxs[k]])]

MarkGrouped(buf, idxs, v) ==
    [j \in 1..Len(buf) |->
        IF \E k \in 1..Len(idxs) : idxs[k] = j THEN [buf[j] EXCEPT !.grouped = v]
        ELSE buf[j]]

\* -------------------------------------------- FrameSyncTimestampService
\* The inner for-loop of synchronize: scans the buffer from position j for
\* frames within tolerance of the anchor buf[i] whose camera is not yet in
\* the group; stops as soon as the group has one frame per known camera.
\* TsScan with the tolerance measured from the last frame added to the group
\* instead of from the anchor.
RECURSIVE TsScan_FromLast(_, _, _, _, _, _)
TsScan_FromLast(buf, i, j, group, tol, ncams) ==
    IF j > Len(buf) THEN [group |-> group, complete |-> FALSE]
    ELSE IF Truthy(buf[j].grouped) THEN TsScan_FromLast(buf, i, j + 1, group, tol, ncams)
    ELSE IF /\ Abs(buf[j].frame_timestamp - buf[group[Len(group)]].frame_timestamp) <= tol
            /\ ~\E k \in 1..Len(group) : buf[group[k]].camera_id = buf[j].camera_id
         THEN LET g2 == Append(group, j) IN
              IF Len(g2) = ncams THEN [group |-> g2, complete |-> TRUE]
              ELSE TsScan_FromLast(buf, i, j + 1, g2, tol, ncams)
         ELSE TsScan_FromLast(buf, i, j + 1, group, tol, ncams)

RECURSIVE TsScan(_, _, _, _, _, _)
TsScan(buf, i, j, group, tol, ncams) ==
    IF j > Len(buf) THEN [group |-> group, complete |-> FALSE]
    ELSE IF Truthy(buf[j].grouped) THEN TsScan(buf, i, j + 1, group, tol, ncams)
    ELSE IF /\ Abs(buf[j].frame_timestamp - buf[i].frame_timestamp) <= tol
            /\ ~\E k \in 1..Len(group) : buf[group[k]].camera_id = buf[j].camera_id
         THEN LET g2 == Append(group, j) IN
              IF Len(g2) = ncams THEN [group |-> g2, complete |-> TRUE]
              ELSE TsScan(buf, i, j + 1, g2, tol, ncams)
         ELSE TsScan(buf, i, j + 1, group, tol, ncams)

\* The outer for-loop: every frame not yet marked anchors a candidate group;
\* a complete group goes to frame_seq.collect_group and its frames get
\* grouped = the anchor's frame_timestamp.
RECURSIVE TsGroup(_, _, _, _, _)
TsGroup(buf, i, seq, tol, ncams) ==
    IF i > Len(buf) THEN [buf |-> buf, seq |-> seq]
    ELSE IF Truthy(buf[i].grouped) THEN TsGroup(buf, i + 1, seq, tol, ncams)
    ELSE LET r == TsScan(buf, i, 1, <<i>>, tol, ncams) IN
         IF r.complete
         THEN TsGroup(MarkGrouped(buf, r.group, buf[i].frame_timestamp), i + 1,
                      collect_group(seq, GroupOf(buf, r.group)), tol, ncams)
         ELSE TsGroup(buf, i + 1, seq, tol, ncams)

\* The cleanup without the retention test.
TsCleanup_KeepOld(buf, t, retention) ==
    SelectSeq(buf, LAMBDA e : ~Truthy(e.grouped))

\* The cleanup at the end of synchronize.
TsCleanup(buf, t, retention) ==
    SelectSeq(buf, LAMBDA e : ~Truthy(e.grouped) /\ (t - e.entry_time) <= retention)

\* ts-mode collect: fps and tolerance are fixed by the first message, the
\* camera's initial delay and start time by its first frame.
TsInitialDelay(threshold, t, frame_timestamp) ==
    IF threshold # 0 THEN Min2(threshold, t - frame_timestamp) ELSE t - frame_timestamp

TsCollect(camera_id, frame_timestamp, frame_number, msg_fps) ==
    LET f == IF fps = 0 THEN msg_fps ELSE fps
        icd == IF camera_id \in DOMAIN initial_camera_data
               THEN initial_camera_data
               ELSE [c \in DOMAIN initial_camera_data \cup {camera_id} |->
                       IF c = camera_id
                       THEN [initial_delay |->
                                TsInitialDelay(latency_threshold, now, frame_timestamp),
                             start_time |-> now]
                       ELSE initial_camera_data[c]]
        data == [frame_number |-> frame_number,
                 frame_timestamp |-> frame_timestamp,
                 elapsed_time |-> now - icd[camera_id].start_time,
                 delay |-> now - frame_timestamp - icd[camera_id].initial_delay]
    IN
    /\ fps' = f
    /\ tolerance' = IF tolerance = 0 THEN TicksPerSec \div f ELSE tolerance
    /\ initial_camera_data' = icd
    /\ current_camera_data' =
          [c \in DOMAIN current_camera_data \cup {camera_id} |->
              IF c = camera_id THEN data ELSE current_camera_data[c]]
    /\ frames_buffer' = Append(frames_buffer,
          [id |-> next_id, frame_timestamp |-> frame_timestamp,
           frame_number |-> frame_number, camera_id |-> camera_id,
           entry_time |-> now, grouped |-> Absent])

\* ts-mode synchronize, the whole pass under the lock: group, sequence(),
\* drain next_group() into the callback, clean the buffer up.
TsSynchronize ==
    LET ncams == Cardinality(DOMAIN initial_camera_data)
        g == TsGroup(frames_buffer, 1, frame_seq, tolerance, ncams)
        d == DrainGroups(sequence(g.seq), <<>>)
    IN
    /\ frames_buffer' = TsCleanup(g.buf, now, retention_time)
    /\ frame_seq' = d.seq
    /\ delivered' = delivered \o d.out
    /\ sync_raised' = "none"
    /\ pass_log' = [kind |-> "timestamp", before |-> frames_buffer,
                    cams |-> DOMAIN initial_camera_data,
                    marked |-> g.seq.grouped_frames_buffer,
                    submitted |-> g.seq.grouped_frames_buffer,
                    groups |-> d.out]

\* ---------------------------------------------- FrameSyncNumberService
NumCollect(camera_id, frame_timestamp, frame_number, msg_fps) ==
    LET icd == IF camera_id \in DOMAIN initial_camera_data
               THEN initial_camera_data
               ELSE [c \in DOMAIN initial_camera_data \cup {camera_id} |->
                       IF c = camera_id
                       THEN [start_time |-> frame_timestamp, elapsed_time |-> 0]
                       ELSE initial_camera_data[c]]
        data == [frame_number |-> frame_number,
                 frame_timestamp |-> frame_timestamp,
                 elapsed_time |-> frame_timestamp - icd[camera_id].start_time]
    IN
    /\ fps' = IF fps = 0 THEN msg_fps ELSE fps
    /\ tolerance' = tolerance
    /\ initial_camera_data' = icd
    /\ current_camera_data' =
          [c \in DOMAIN current_camera_data \cup {camera_id} |->
              IF c = camera_id THEN data ELSE current_camera_data[c]]
    /\ frames_buffer' = Append(frames_buffer,
          [id |-> next_id, frame_timestamp |-> frame_timestamp,
           frame_number |-> frame_number, camera_id |-> camera_id,
           entry_time |-> Absent, grouped |-> 0])

\* The indices of the buffered frames that bear frame_number n, in buffer order.
RECURSIVE IndicesWithNumber(_, _, _)
IndicesWithNumber(buf, n, j) ==
    IF j > Len(buf) THEN <<>>
    ELSE IF buf[j].frame_number = n THEN <<j>> \o IndicesWithNumber(buf, n, j + 1)
         ELSE IndicesWithNumber(buf, n, j + 1)

\* for frame_number in sorted(frame_numbers): a group is every buffered frame
\* with that number; with as many frames as known cameras it is appended to
\* the local list grouped_frames and its frames are marked grouped = True.
RECURSIVE NumGroup(_, _, _, _)
NumGroup(buf, numbers, grouped_frames, ncams) ==
    IF numbers = {} THEN [buf |-> buf, grouped_frames |-> grouped_frames]
    ELSE LET n == CHOOSE x \in numbers : \A y \in numbers : x <= y
             group == IndicesWithNumber(buf, n, 1)
         IN IF Len(group) = ncams
            THEN NumGroup(MarkGrouped(buf, group, 1), numbers \ {n},
                          Append(grouped_frames, GroupOf(buf, group)), ncams)
            ELSE NumGroup(buf, numbers \ {n}, grouped_frames, ncams)

\* The cleanup expression time.time() - entry.get("entry_time") is evaluated for
\* every entry that is not grouped; it raises TypeError when entry_time is None.
CleanupRaises(buf) == \E j \in 1..Len(buf) :
                          ~Truthy(buf[j].grouped) /\ buf[j].entry_time = Absent

NumSynchronize ==
    LET ncams == Cardinality(DOMAIN initial_camera_data)
        g == NumGroup(frames_buffer, {frames_buffer[j].frame_number : j \in 1..Len(frames_buffer)},
                      <<>>, ncams)
        d == DrainGroups(sequence(frame_seq), <<>>)
    IN
    /\ frame_seq' = d.seq
    /\ delivered' = delivered \o d.out
    /\ IF CleanupRaises(g.buf)
       THEN /\ frames_buffer' = g.buf
            /\ sync_raised' = "TypeError"
       ELSE /\ frames_buffer' = TsCleanup(g.buf, now, retention_time)
            /\ sync_raised' = "none"
    /\ pass_log' = [kind |-> "number", before |-> frames_buffer,
                    cams |-> DOMAIN initial_camera_data,
                    marked |-> g.grouped_frames,
                    submitted |-> <<>>,
                    groups |-> d.out]

\* ------------------------------------------------------------ FrameCache
\* A per-camera cache is the dict of add_frame in insertion order: a sequence
\* of entries [key, frame], the frame carrying its own frame_timestamp.
CacheKeys(c) == {c[j].key : j \in 1..Len(c)}

\* add_frame whose eviction removes the first (oldest) entry.
add_frame_EvictFirst(c, frame_timestamp, frame_data) ==
    LET c1 == SelectSeq(c, LAMBDA e : e.key # frame_timestamp)
        c2 == Append(c1, [key |-> frame_timestamp, frame |-> frame_data])
    IN IF max_size # 0 /\ Len(c2) > max_size THEN Tail(c2) ELSE c2

\* add_frame without the eviction step.
add_frame_NoEvict(c, frame_timestamp, frame_data) ==
    LET c1 == SelectSeq(c, LAMBDA e : e.key # frame_timestamp)
    IN Append(c1, [key |-> frame_timestamp, frame |-> frame_data])

\* add_frame: pop an existing key, insert at the end, and when the size
\* exceeds max_size call dict.popitem(), which removes the LAST entry.
add_frame(c, frame_timestamp, frame_data) ==
    LET c1 == SelectSeq(c, LAMBDA e : e.key # frame_timestamp)
        c2 == Append(c1, [key |-> frame_timestamp, frame |-> frame_data])
    IN IF max_size # 0 /\ Len(c2) > max_size THEN SubSeq(c2, 1, Len(c2) - 1) ELSE c2

\* A scan that stops after the first entry it takes.
PrefixBefore_One(c, t) ==
    IF c = <<>> \/ ~(Head(c).key < t) THEN 0 ELSE 1

\* The length of the longest prefix of c whose keys are all < t: the scan of
\* get_and_remove_frames_before stops at the first key >= t.
RECURSIVE PrefixBefore(_, _)
PrefixBefore(c, t) ==
    IF c = <<>> \/ ~(Head(c).key < t) THEN 0 ELSE 1 + PrefixBefore(Tail(c), t)

get_and_remove_frames_before(c, frame_timestamp) ==
    LET n == PrefixBefore(c, frame_timestamp) IN
    [frames |-> [j \in 1..n |-> c[j].frame], cache |-> SubSeq(c, n + 1, Len(c))]

\* get_and_remove_frames_between keeping the frames at from_timestamp too.
get_and_remove_frames_between_Inclusive(c, from_timestamp, to_timestamp) ==
    LET r == get_and_remove_frames_before(c, to_timestamp) IN
    [frames |-> SelectSeq(r.frames, LAMBDA f : f.frame_timestamp >= from_timestamp),
     cache |-> r.cache]

\* get_and_remove_frames_between: get_and_remove_frames_before(to_timestamp),
\* then the frames with frame_timestamp > from_timestamp.
get_and_remove_frames_between(c, from_timestamp, to_timestamp) ==
    LET r == get_and_remove_frames_before(c, to_timestamp) IN
    [frames |-> SelectSeq(r.frames, LAMBDA f : f.frame_timestamp > from_timestamp),
     cache |-> r.cache]

NoCacheOp == [op |-> "none", camera_id |-> "", t |-> 0, from_t |-> 0,
              before |-> <<>>, frames |-> <<>>, raised |-> FALSE, created |-> FALSE,
              repeat |-> FALSE]

\* The call repeats the call before it: the same method on the same camera's
\* cache with the same timestamp, the earlier call having returned.
Repeats(op, camera_id, t) ==
    /\ cache_log.op = op /\ cache_log.camera_id = camera_id /\ cache_log.t = t
    /\ ~cache_log.raised

\* FrameCache.add_camera(camera_id)
AddCamera(camera_id) ==
    /\ cache' = IF camera_id \in DOMAIN cache THEN cache
                ELSE [c \in DOMAIN cache \cup {camera_id} |->
                        IF c = camera_id THEN <<>> ELSE cache[c]]
    /\ cache_log' = [NoCacheOp EXCEPT !.op = "add_camera", !.camera_id = camera_id,
                                      !.created = camera_id \notin DOMAIN cache]

\* get_frame_cache(camera_id).add_frame(frame_timestamp, message): for a camera
\* never added get_frame_cache returns None and the call raises AttributeError.
AddFrame(camera_id, frame_timestamp, payload) ==
    IF camera_id \notin DOMAIN cache
    THEN /\ cache' = cache
         /\ cache_log' = [NoCacheOp EXCEPT !.op = "add_frame", !.camera_id = camera_id,
                                           !.t = frame_timestamp, !.raised = TRUE]
    ELSE /\ cache' = [cache EXCEPT ![camera_id] =
                        add_frame(@, frame_timestamp,
                                  [frame_timestamp |-> frame_timestamp, payload |-> payload])]
         /\ cache_log' = [NoCacheOp EXCEPT !.op = "add_frame", !.camera_id = camera_id,
                                           !.t = frame_timestamp,
                                           !.before = cache[camera_id],
                                           !.repeat = Repeats("add_frame", camera_id,
                                                              frame_timestamp)]

\* get_frame_cache(camera_id).get_and_remove_frames_before(t)
TakeBefore(camera_id, t) ==
    IF camera_id \notin DOMAIN cache
    THEN /\ cache' = cache
         /\ cache_log' = [NoCacheOp EXCEPT !.op = "take_before", !.camera_id = camera_id,
                                           !.t = t, !.raised = TRUE]
    ELSE LET r == get_and_remove_frames_before(cache[camera_id], t) IN
         /\ cache' = [cache EXCEPT ![camera_id] = r.cache]
         /\ cache_log' = [NoCacheOp EXCEPT !.op = "take_before", !.camera_id = camera_id,
                                           !.t = t, !.before = cache[camera_id],
                                           !.frames = r.frames,
                                           !.repeat = Repeats("take_before", camera_id, t)]

\* get_frame_cache(camera_id).get_and_remove_frames_between(from_t, to_t)
TakeBetween(camera_id, from_t, to_t) ==
    IF camera_id \notin DOMAIN cache
    THEN /\ cache' = cache
         /\ cache_log' = [NoCacheOp EXCEPT !.op = "take_between", !.camera_id = camera_id,
                                           !.t = to_t, !.from_t = from_t, !.raised = TRUE]
    ELSE LET r == get_and_remove_frames_between(cache[camera_id], from_t, to_t) IN
         /\ cache' = [cache EXCEPT ![camera_id] = r.cache]
         /\ cache_log' = [NoCacheOp EXCEPT !.op = "take_between", !.camera_id = camera_id,
                                           !.t = to_t, !.from_t = from_t,
                                           !.before = cache[camera_id],
                                           !.frames = r.frames]

CacheInit ==
    /\ cache = <<>>
    /\ cache_log = NoCacheOp

\* ------------------------------------------- tracker: two feeds, one cache
\* TrackerService.process runs consumer_capture.start and
\* consumer_detection.start in two pool threads; their callbacks work on the
\* same FrameCache, which has no lock.  Each action below is one step a thread
\* makes between two points where the interpreter can switch threads.
TrackedCamera == "A"

Feeds == {"capture", "detection"}

Other(f) == IF f = "capture" THEN "detection" ELSE "capture"

\* A feed thread: its position, the frame_timestamp of its message, its
\* reference to the per-camera FrameCache ("live": the object registered in
\* cache; "stale": an object add_camera has since replaced, kept in obj) and
\* the locals of get_and_remove_frames_before.
NoFeed == [pc |-> "idle", t |-> 0, ref |-> "none", obj |-> <<>>, it_len |-> 0,
           pos |-> 0, frames_to_return |-> <<>>, keys_to_remove |-> <<>>]

\* The per-camera cache object the thread holds.
Object(f) == IF tracker.feed[f].ref = "stale" THEN tracker.feed[f].obj
             ELSE cache[TrackedCamera]

\* The thread writes c to the object it holds; tr is the rest of its step.
Store(f, c, tr) ==
    IF tracker.feed[f].ref = "stale"
    THEN /\ tracker' = [tr EXCEPT !.feed[f].obj = c]
         /\ cache' = cache
    ELSE /\ tracker' = tr
         /\ cache' = [cache EXCEPT ![TrackedCamera] = c]

Raise(f, e) == [tracker EXCEPT !.feed[f] = [NoFeed EXCEPT !.pc = "dead"],
                               !.raised[f] = e]

\* callback(message) begins and add_camera tests `camera_id not in self.cache`.
\* The capture feed carries the camera's frames in order (timestamp 1, 2, ...);
\* a detection message carries a timestamp later than the last one.
FeedReceive(f, t) ==
    /\ tracker.feed[f].pc = "idle"
    /\ IF f = "capture"
       THEN tracker.captured < MaxCaptures /\ t = tracker.captured + 1
       ELSE tracker.detected < MaxDetections /\ t > tracker.last_frame_timestamp
    /\ tracker' = [tracker EXCEPT !.feed[f] =
                     [NoFeed EXCEPT !.t = t,
                                    !.pc = IF TrackedCamera \in DOMAIN cache
                                           THEN "get_frame_cache" ELSE "add_camera"]]
    /\ UNCHANGED cache

\* add_camera: self.cache[camera_id] = FrameCache().  A thread holding the
\* object registered until now keeps it.
AddCameraSet(f) ==
    /\ tracker.feed[f].pc = "add_camera"
    /\ cache' = [c \in DOMAIN cache \cup {TrackedCamera} |->
                    IF c = TrackedCamera THEN <<>> ELSE cache[c]]
    /\ tracker' = [tracker EXCEPT
          !.feed[f].pc = "get_frame_cache",
          !.feed[Other(f)] = IF @.ref = "live"
                             THEN [@ EXCEPT !.ref = "stale", !.obj = cache[TrackedCamera]]
                             ELSE @]

\* get_frame_cache(camera_id), and the call of the method on the result
GetFrameCache(f) ==
    /\ tracker.feed[f].pc = "get_frame_cache"
    /\ IF TrackedCamera \notin DOMAIN cache
       THEN tracker' = Raise(f, "AttributeError")
       ELSE tracker' = [tracker EXCEPT !.feed[f].ref = "live",
                                       !.feed[f].pc = IF f = "capture" THEN "pop"
                                                      ELSE "items"]
    /\ UNCHANGED cache

\* add_frame: if frame_timestamp in self.cache: self.cache.pop(frame_timestamp)
AddFramePop ==
    LET f == "capture" th == tracker.feed[f] IN
    /\ th.pc = "pop"
    /\ Store(f, SelectSeq(Object(f), LAMBDA e : e.key # th.t),
             [tracker EXCEPT !.feed[f].pc = "insert"])

\* add_frame: self.cache[frame_timestamp] = frame_data
AddFrameInsert ==
    LET f == "capture" th == tracker.feed[f] IN
    /\ th.pc = "insert"
    /\ Store(f, Append(Object(f), [key |-> th.t,
                                   frame |-> [frame_timestamp |-> th.t, payload |-> th.t]]),
             [tracker EXCEPT !.feed[f].pc = "evict"])

\* add_frame: if the size exceeds max_size, self.cache.popitem(); return
AddFrameEvict ==
    LET f == "capture"
        th == tracker.feed[f]
        c == Object(f)
        over == max_size # 0 /\ Len(c) > max_size
    IN
    /\ th.pc = "evict"
    /\ tracker' = [tracker EXCEPT !.feed[f] = NoFeed,
                                  !.captured = @ + 1,
                                  !.added = @ \cup {th.t},
                                  !.evicted = IF over THEN @ \cup {c[Len(c)].frame.payload}
                                              ELSE @]
    /\ cache' = IF th.ref = "stale" THEN cache
                ELSE [cache EXCEPT ![TrackedCamera] =
                        IF over THEN SubSeq(c, 1, Len(c) - 1) ELSE c]

\* get_and_remove_frames_before: for ts, frame in self.cache.items()
ItemsIter ==
    LET f == "detection" IN
    /\ tracker.feed[f].pc = "items"
    /\ tracker' = [tracker EXCEPT !.feed[f].pc = "next",
                                  !.feed[f].it_len = Len(Object(f)),
                                  !.feed[f].pos = 0]
    /\ UNCHANGED cache

\* One turn of the for loop: the dict iterator raises RuntimeError when the
\* dict's size differs from the size at the iterator's creation; otherwise it
\* yields the next entry, which is kept if ts < frame_timestamp and ends the
\* loop (break) if not.
IterNext ==
    LET f == "detection"
        th == tracker.feed[f]
        c == Object(f)
    IN
    /\ th.pc = "next"
    /\ tracker' =
          IF Len(c) # th.it_len THEN Raise(f, "RuntimeError")
          ELSE IF th.pos >= Len(c) THEN [tracker EXCEPT !.feed[f].pc = "remove"]
          ELSE LET e == c[th.pos + 1] IN
               IF e.key < th.t
               THEN [tracker EXCEPT !.feed[f].pos = @ + 1,
                                    !.feed[f].frames_to_return = Append(@, e.frame),
                                    !.feed[f].keys_to_remove = Append(@, e.key)]
               ELSE [tracker EXCEPT !.feed[f].pc = "remove"]
    /\ UNCHANGED cache

\* for ts in keys_to_remove: self.cache.pop(ts), one key per step; when the
\* keys are exhausted get_and_remove_frames_between filters the frames and
\* returns, and the callback ends with last_frame_timestamp[camera_id] = t.
RemoveKey ==
    LET f == "detection"
        th == tracker.feed[f]
        c == Object(f)
    IN
    /\ th.pc = "remove"
    /\ IF th.keys_to_remove = <<>>
       THEN /\ tracker' = [tracker EXCEPT
                  !.feed[f] = NoFeed,
                  !.detected = @ + 1,
                  !.extracted = @ \cup {fr.payload : fr \in SeqRange(th.frames_to_return)},
                  !.returned = SelectSeq(th.frames_to_return,
                                  LAMBDA fr : /\ fr.frame_timestamp > tracker.last_frame_timestamp
                                              /\ fr.frame_timestamp # th.t),
                  !.last_frame_timestamp = th.t]
            /\ UNCHANGED cache
       ELSE IF Head(th.keys_to_remove) \notin CacheKeys(c)
       THEN tracker' = Raise(f, "KeyError") /\ UNCHANGED cache
       ELSE Store(f, SelectSeq(c, LAMBDA e : e.key # Head(th.keys_to_remove)),
                  [tracker EXCEPT !.feed[f].keys_to_remove = Tail(@)])

\* No feed thread has started.
TrackerIdle ==
    tracker = [feed |-> [f \in Feeds |-> NoFeed], captured |-> 0, detected |-> 0,
               last_frame_timestamp |-> 0, added |-> {}, evicted |-> {},
               extracted |-> {}, returned |-> <<>>,
               raised |-> [f \in Feeds |-> "none"]]

\* ------------------------------------ FrameSequencingService, called alone
\* sequence_groups() at time current_time: takes self.lock; returns at once
\* when less than duration has elapsed; otherwise takes self.lock a second
\* time, and a threading.Lock its holder asks for again is never granted: the
\* call stays there with the lock held, before the sort and before
\* last_sequence_time is updated.
sequence_groups(s, current_time) ==
    IF current_time - s.last_sequence_time < s.duration
    THEN s
    ELSE [s EXCEPT !.lock = "held"]

NoSeqCall == [op |-> "none", before |-> NewSequencer(0, 0), msg |-> <<>>,
              repeat |-> FALSE, collected |-> FALSE, n |-> 0, groups |-> 0]

SeqIdle == seq_call = NoSeqCall

\* A call of another thread is served only while self.lock is free.
SeqFree == frame_sequencing.lock = "free"

SeqLog(op, msg) ==
    [seq_call EXCEPT !.op = op, !.before = frame_sequencing, !.msg = msg,
                     !.repeat = FALSE]

SeqCollect(frame_timestamp) ==
    /\ SeqFree
    /\ seq_call.n < MaxSeqCollects
    /\ LET message == [id |-> seq_call.n + 1, frame_timestamp |-> frame_timestamp] IN
       frame_sequencing' = collect(frame_sequencing, frame_timestamp, "A", message)
    /\ seq_call' = [SeqLog("collect", <<>>) EXCEPT !.n = @ + 1, !.collected = TRUE]
    /\ UNCHANGED <<syncVars, now, cacheVars, tracker, capture, cfg, bus, loop, threads,
                   processed, fed>>

\* repeat: no collect has been made since the sequence() before this one.
SeqSequence ==
    /\ SeqFree
    /\ frame_sequencing' = sequence(frame_sequencing)
    /\ seq_call' = [SeqLog("sequence", <<>>) EXCEPT
                       !.repeat = ~seq_call.collected /\ seq_call.op # "none",
                       !.collected = FALSE]
    /\ UNCHANGED <<syncVars, now, cacheVars, tracker, capture, cfg, bus, loop, threads,
                   processed, fed>>

SeqNext ==
    /\ SeqFree
    /\ seq_call.op # "none"
    /\ LET r == next(frame_sequencing) IN
       /\ frame_sequencing' = r.seq
       /\ seq_call' = SeqLog("next", r.msg)
       /\ processed' = processed \o r.msg
    /\ UNCHANGED <<syncVars, now, cacheVars, tracker, capture, cfg, bus, loop, threads,
                   fed>>

SeqCollectGroup(frame_timestamp) ==
    /\ SeqFree
    /\ seq_call.groups < MaxSeqGroups
    /\ frame_sequencing' = collect_group(frame_sequencing,
                              <<[frame_timestamp |-> frame_timestamp, camera_id |-> "A"]>>)
    /\ seq_call' = [SeqLog("collect_group", <<>>) EXCEPT !.groups = @ + 1]
    /\ UNCHANGED <<syncVars, now, cacheVars, tracker, capture, cfg, bus, loop, threads,
                   processed, fed>>

SeqSequenceGroups ==
    /\ SeqFree
    /\ frame_sequencing' = sequence_groups(frame_sequencing, now)
    /\ seq_call' = SeqLog("sequence_groups", <<>>)
    /\ UNCHANGED <<syncVars, now, cacheVars, tracker, capture, cfg, bus, loop, threads,
                   processed, fed>>

SeqNextGroup ==
    /\ SeqFree
    /\ seq_call.groups > 0
    /\ LET r == next_group(frame_sequencing) IN
       /\ frame_sequencing' = r.seq
       /\ seq_call' = SeqLog("next_group", r.msg)
    /\ UNCHANGED <<syncVars, now, cacheVars, tracker, capture, cfg, bus, loop, threads,
                   processed, fed>>

\* --------------------------------------------------------- CaptureCallback
\* The object after __init__: status INITIALIZED, nothing submitted to the
\* executor. tasks are the callables submitted so far, each with the place its
\* worker has reached.
Signals == {"START", "STOP", "HOLD", "RESUME", "TERMINATE"}

NewCapture == [status |-> "INITIALIZED", tasks |-> <<>>, signals |-> 0]

CaptureIdle == capture = NewCapture

AuxIdle == SeqIdle /\ CaptureIdle

\* self.executor.submit(fn)
Submit(c, fn) == [c EXCEPT !.tasks = Append(@, [fn |-> fn, pc |-> "submitted"])]

\* set_status(new_status), under self._lock
set_status(c, new_status) == [c EXCEPT !.status = new_status]

\* The statuses in which callback submits the handler of a signal.
Accepts(signal) ==
    CASE signal = "START" -> {"INITIALIZED", "STOPPED", "ERROR"}
      [] signal = "STOP" -> {"RUNNING", "ON_HOLD"}
      [] signal = "HOLD" -> {"RUNNING"}
      [] signal = "RESUME" -> {"ON_HOLD", "ERROR"}
      [] OTHER -> {}

Handler(signal) ==
    CASE signal = "START" -> "handle_start"
      [] signal = "STOP" -> "handle_stop"
      [] signal = "HOLD" -> "handle_hold"
      [] OTHER -> "handle_resume"

\* callback(message): submits the handler when the status read allows the
\* signal, logs a warning otherwise.
callback_signal(c, signal) ==
    LET counted == [c EXCEPT !.signals = @ + 1] IN
    IF c.status \in Accepts(signal) THEN Submit(counted, Handler(signal)) ELSE counted

CaptureCallback(signal) ==
    /\ capture.signals < MaxSignals
    /\ capture' = callback_signal(capture, signal)
    /\ UNCHANGED <<syncVars, now, cacheVars, tracker, seq_call, loopVars>>

\* The tasks a worker of the executor is running.
Running(c) == {i \in 1..Len(c.tasks) : c.tasks[i].pc \notin {"submitted", "done"}}

\* A worker is free to take a submitted task.
WorkerFree(c) == Cardinality(Running(c)) < max_workers

\* handle_start is inside its capture loop (while cap.isOpened()).
InCaptureLoop(c, i) ==
    c.tasks[i].fn = "handle_start" /\ c.tasks[i].pc \in {"while", "hold"}

\* handle_stop, handle_hold, handle_resume: one set_status each.
HandleSet(i) ==
    /\ i \in 1..Len(capture.tasks)
    /\ capture.tasks[i].pc = "submitted"
    /\ capture.tasks[i].fn # "handle_start"
    /\ WorkerFree(capture)
    /\ LET new_status == CASE capture.tasks[i].fn = "handle_stop" -> "STOPPED"
                           [] capture.tasks[i].fn = "handle_hold" -> "ON_HOLD"
                           [] OTHER -> "RUNNING" IN
       capture' = [set_status(capture, new_status) EXCEPT !.tasks[i].pc = "done"]
    /\ UNCHANGED <<syncVars, now, cacheVars, tracker, seq_call, loopVars>>

\* handle_start up to the loop: set_status(RUNNING), connect.
StartSetRunning(i) ==
    /\ i \in 1..Len(capture.tasks)
    /\ capture.tasks[i].pc = "submitted"
    /\ capture.tasks[i].fn = "handle_start"
    /\ WorkerFree(capture)
    /\ capture' = [set_status(capture, "RUNNING") EXCEPT !.tasks[i].pc = "while"]
    /\ UNCHANGED <<syncVars, now, cacheVars, tracker, seq_call, loopVars>>

\* What the rest of one iteration does: the next frame is sent and the loop
\* goes on, the last loop of the video ends (break), or an exception is
\* raised (status ERROR, then the code after the try).
Iterate(c, i, outcome) ==
    CASE outcome = "continue" -> [c EXCEPT !.tasks[i].pc = "while"]
      [] outcome = "finished" -> [c EXCEPT !.tasks[i].pc = "exit"]
      [] OTHER -> [set_status(c, "ERROR") EXCEPT !.tasks[i].pc = "exit"]

\* One pass of the loop head: the status is read once; STOPPED leaves the
\* loop, ON_HOLD goes to the wait, anything else runs the iteration.
StartIteration(i, outcome) ==
    /\ i \in 1..Len(capture.tasks)
    /\ capture.tasks[i].fn = "handle_start"
    /\ capture.tasks[i].pc = "while"
    /\ capture' = IF capture.status = "STOPPED"
                  THEN [capture EXCEPT !.tasks[i].pc = "exit"]
                  ELSE IF capture.status = "ON_HOLD"
                  THEN [capture EXCEPT !.tasks[i].pc = "hold"]
                  ELSE Iterate(capture, i, outcome)
    /\ UNCHANGED <<syncVars, now, cacheVars, tracker, seq_call, loopVars>>

\* while self.get_status() == Status.ON_HOLD: sleep; when the status is
\* anything else the iteration goes on without reading it again.
StartHoldOver(i, outcome) ==
    /\ i \in 1..Len(capture.tasks)
    /\ capture.tasks[i].pc = "hold"
    /\ capture.status # "ON_HOLD"
    /\ capture' = Iterate(capture, i, outcome)
    /\ UNCHANGED <<syncVars, now, cacheVars, tracker, seq_call, loopVars>>

\* After the try: simulated_frame_number = 0; set_status(STOPPED).
StartExit(i) ==
    /\ i \in 1..Len(capture.tasks)
    /\ capture.tasks[i].pc = "exit"
    /\ capture' = [set_status(capture, "STOPPED") EXCEPT !.tasks[i].pc = "done"]
    /\ UNCHANGED <<syncVars, now, cacheVars, tracker, seq_call, loopVars>>

\* ------------------------------------------------------- FrameSyncService
NoPass == [kind |-> "none", before |-> <<>>, cams |-> {}, marked |-> <<>>,
           submitted |-> <<>>, groups |-> <<>>]

\* Camera ids are only compared for equality: a camera not seen before is the
\* first unseen one of CameraOrder.
NextCamera(seen) ==
    IF Cardinality(seen) < Len(CameraOrder) THEN {CameraOrder[Cardinality(seen) + 1]} ELSE {}

\* FrameSyncService.collect: what it assigns.
CollectBody(camera_id, frame_timestamp, frame_number, msg_fps) ==
    /\ IF sync_type = "timestamp"
       THEN TsCollect(camera_id, frame_timestamp, frame_number, msg_fps)
       ELSE NumCollect(camera_id, frame_timestamp, frame_number, msg_fps)
    /\ next_id' = next_id + 1
    /\ pass_log' = NoPass

Collect(camera_id, frame_timestamp, frame_number, msg_fps) ==
    /\ CollectBody(camera_id, frame_timestamp, frame_number, msg_fps)
    /\ UNCHANGED <<sync_type, retention_time, latency_threshold, frame_seq,
                   sync_raised, delivered, now>>

\* collect(..., fps=0, ...) on a timestamp synchronizer whose fps is still 0:
\* self.fps = fps leaves it 0 and tolerance = 1 / self.fps raises
\* ZeroDivisionError before anything is stored.
CollectRaises ==
    /\ sync_type = "timestamp"
    /\ fps = 0
    /\ sync_raised' = "ZeroDivisionError"
    /\ pass_log' = NoPass
    /\ UNCHANGED <<sync_type, fps, tolerance, retention_time, latency_threshold,
                   initial_camera_data, current_camera_data, frames_buffer,
                   frame_seq, delivered, next_id, now>>

Synchronize ==
    /\ IF sync_type = "timestamp" THEN TsSynchronize ELSE NumSynchronize
    /\ UNCHANGED <<sync_type, fps, tolerance, retention_time, latency_threshold,
                   initial_camera_data, current_camera_data, next_id, now>>

\* The wall clock advances.
Tick ==
    /\ now' = now + 1
    /\ pass_log' = NoPass
    /\ UNCHANGED <<sync_type, fps, tolerance, retention_time, latency_threshold,
                   initial_camera_data, current_camera_data, frames_buffer,
                   frame_seq, sync_raised, delivered, next_id>>

\* ------------------------------------------------------- rate control
\* int(x / y) for y > 0: Python's int() truncates toward zero.
TruncDiv(x, y) == IF x >= 0 THEN x \div y ELSE 0 - ((0 - x) \div y)

Max2(a, b) == IF a > b THEN a ELSE b

\* sampling returning the signed delay as the time to wait.
TsSampling_Signed(data, f) ==
    IF data.delay < 0
    THEN [amount |-> data.delay, skip |-> FALSE]
    ELSE [amount |-> Max2(TruncDiv(data.delay * f, TicksPerSec), 0), skip |-> TRUE]

\* FrameSyncTimestampService.sampling: (amount, True) to skip, (amount, False)
\* to wait; delay and the wait are in ticks.
TsSampling(data, f) ==
    IF data.delay < 0
    THEN [amount |-> Abs(data.delay), skip |-> FALSE]
    ELSE [amount |-> Max2(TruncDiv(data.delay * f, TicksPerSec), 0), skip |-> TRUE]

\* FrameSyncNumberService.sampling
NumSampling(data, f) ==
    LET expected_frame == TruncDiv(data.elapsed_time * f, TicksPerSec)
        skip_count == expected_frame - data.frame_number
    IN IF skip_count < 0
       THEN [amount |-> (Abs(skip_count) * TicksPerSec) \div f, skip |-> FALSE]
       ELSE [amount |-> Max2(skip_count, 0), skip |-> TRUE]

\* FrameSyncService.sampling(camera_id) on given camera data
Sampling(type, ccd, camera_id, f) ==
    IF type = "timestamp" THEN TsSampling(ccd[camera_id], f)
    ELSE NumSampling(ccd[camera_id], f)

\* --------------------------------------------------------- MessageConsumer
\* The bus: messages are appended to the topic by the producers; the consumer
\* reads the message at its position, commits its position, seeks to the end.
LoopCameras == {"A", "B"}

NoDrain == [pc |-> "idle", msg |-> <<>>]

DrainWorkers == 1..MaxMessages

\* A camera produces the next frame of its stream, stamped with the current
\* time, at most one frame per tick (the highest frame rate of the model).
Produce(camera_id) ==
    /\ Len(bus.topic) < MaxMessages
    /\ camera_id = "A" \/ fed["A"].count > 0
    /\ fed[camera_id].count = 0 \/ fed[camera_id].last < now
    /\ bus' = [bus EXCEPT !.topic = Append(@,
                  [id |-> Len(bus.topic) + 1, key |-> camera_id, camera_id |-> camera_id,
                   frame_number |-> fed[camera_id].count + 1,
                   frame_timestamp |-> now, fps |-> 2])]
    /\ fed' = [fed EXCEPT ![camera_id] = [count |-> @.count + 1, last |-> now]]
    /\ UNCHANGED <<syncVars, now, cacheVars, tracker, auxVars, cfg, loop, frame_sequencing, threads,
                   processed>>

\* interval elapsed:  time.time() - t >= backlog_check_interval > 0
IntervalElapsed(t) ==
    cfg.backlog_check_interval > 0 /\ now - t >= cfg.backlog_check_interval

\* threading.Thread(... sequence(), next() ... callback ...).start()
SpawnDrain(d) ==
    IF \E w \in DrainWorkers : d[w].pc = "idle"
    THEN LET w == CHOOSE x \in DrainWorkers :
                     d[x].pc = "idle" /\ \A y \in DrainWorkers : d[y].pc = "idle" => x <= y
         IN [d EXCEPT ![w] = [pc |-> "sequence", msg |-> <<>>]]
    ELSE d

\* self.consumer.commit(): commits the offset that follows the record just read
ConsumerCommit(b, offset) == [b EXCEPT !.committed = offset]

\* seek_to_end that leaves the position where it is.
ConsumerSeekToEnd_Stay(b) == b

\* self.consumer.seek_to_end(): the next record read is the first one appended
\* after the call
ConsumerSeekToEnd(b) == [b EXCEPT !.position = Len(b.topic) + 1]

\* the flag of line 217 never set.
SetSeekToEnd_Forget(l) == l

\* seek_to_end = True (line 217)
SetSeekToEnd(l) == [l EXCEPT !.seek_to_end = TRUE]

\* The iteration with the commit and seek moved ahead of the callback.
IterationEvents_CommitFirst(pre, callback, post) == pre \o post \o callback

\* What one iteration did, in the order of the statements of start(): collect
\* (lines 174-177), the synchronous callback (lines 206-209), then the rest
\* (lines 212-236).
IterationEvents(pre, callback, post) == pre \o callback \o post

\* stop() that leaves the consumer open.
ConsumerClose_Skip(l) == l

\* stop(): self.consumer.close()
ConsumerClose(l) == [l EXCEPT !.state = "closed"]

\* except Exception as e: raise e, and finally: self.stop().  The exception e
\* leaves start() after the consumer has been closed.
Reraise(l, e) == ConsumerClose([l EXCEPT !.raised = e])

\* The skip branch with the counter left as it is.
SkipFrame_Stay(l) == [l EXCEPT !.events = <<"skip", "continue">>]

\* skip_count -= 1; continue (lines 200-203)
SkipFrame(l) == [l EXCEPT !.skip_count = @ - 1, !.events = <<"skip", "continue">>]

Outcomes == {"ok", "decode_error", "callback_error"}

\* One iteration of the for-loop of start(): everything done for the message
\* at the consumer's position, up to the commit (or the continue, break or
\* exception that ends the iteration).  outcome says whether the record's
\* value deserializes and whether the synchronous callback returns or raises.
LoopIteration(outcome) ==
    /\ loop.state = "running"
    /\ bus.position <= Len(bus.topic)
    /\ now >= loop.sleep_until
    /\ LET message == bus.topic[bus.position]
           pos == bus.position + 1
           camera_id == message.camera_id
           decoded == outcome # "decode_error"
           filtered == cfg.key # "" /\ cfg.key # message.key
           has_sync == cfg.frame_sync_type # "none"
           has_seq == cfg.enable_sequencing
           collects == decoded /\ ~filtered /\ has_sync /\ loop.skip_count = 0
           calls == decoded /\ ~filtered /\ ~has_seq /\ loop.skip_count = 0 /\ ~cfg.unify
           pre == IF collects THEN <<"collect">> ELSE <<>>
           cb == IF calls THEN <<"callback">> ELSE <<>>
           created == [loop EXCEPT !.frame_synchronization = @ \/ has_sync]
           sync_unchanged == UNCHANGED <<fps, tolerance, initial_camera_data,
                                         current_camera_data, frames_buffer,
                                         next_id, pass_log>>
       IN
       /\ outcome = "callback_error" => calls
       \* collect waits for the synchronizer's lock
       /\ collects => threads.lock = "free"
       /\ IF collects
          THEN CollectBody(camera_id, message.frame_timestamp, message.frame_number,
                           message.fps)
          ELSE sync_unchanged
       /\ IF ~decoded
          THEN \* the value deserializer raises inside the consumer iterator
               /\ loop' = Reraise([loop EXCEPT !.events = <<"raise">>], "DecodeError")
               /\ bus' = [bus EXCEPT !.position = pos]
               /\ UNCHANGED <<frame_sequencing, threads, processed>>
          ELSE IF filtered
          THEN \* check_key_condition: continue
               /\ loop' = [loop EXCEPT !.events = <<"continue">>]
               /\ bus' = [bus EXCEPT !.position = pos]
               /\ UNCHANGED <<frame_sequencing, threads, processed>>
          ELSE IF has_seq
          THEN IF ~cfg.metadata_ts
               THEN \* frame_metadata["frame_timestamp"]: KeyError leaves start()
                    /\ loop' = Reraise([created EXCEPT !.sequencing = TRUE,
                                   !.events = IterationEvents(pre, <<>>, <<"raise">>)],
                               "KeyError")
                    /\ bus' = [bus EXCEPT !.position = pos]
                    /\ UNCHANGED <<frame_sequencing, threads, processed>>
               ELSE LET spawn == IntervalElapsed(loop.seq_check_time) IN
                    /\ frame_sequencing' =
                          collect(frame_sequencing, message.frame_timestamp, camera_id, message)
                    /\ threads' = IF spawn
                                  THEN [threads EXCEPT !.drains = SpawnDrain(@)]
                                  ELSE threads
                    /\ loop' = [created EXCEPT !.sequencing = TRUE,
                                   !.seq_check_time = IF spawn THEN now ELSE @,
                                   !.events = IterationEvents(pre, <<>>,
                                      <<"sequencing_collect">>
                                      \o (IF spawn THEN <<"spawn_drain">> ELSE <<>>)
                                      \o <<"commit">>)]
                    /\ bus' = ConsumerCommit([bus EXCEPT !.position = pos], pos)
                    /\ UNCHANGED processed
          ELSE IF loop.skip_count > 0
          THEN \* a skipped frame: continue, without a commit
               /\ loop' = SkipFrame(created)
               /\ bus' = [bus EXCEPT !.position = pos]
               /\ UNCHANGED <<frame_sequencing, threads, processed>>
          ELSE IF outcome = "callback_error"
          THEN \* callback.callback(message) raises: the exception leaves start()
               /\ loop' = Reraise([created EXCEPT
                                   !.events = IterationEvents(pre, cb, <<"raise">>)],
                               "CallbackError")
               /\ bus' = [bus EXCEPT !.position = pos]
               /\ UNCHANGED <<frame_sequencing, threads, processed>>
          ELSE
            /\ processed' = IF calls THEN Append(processed, message) ELSE processed
            /\ UNCHANGED frame_sequencing
            /\ IF ~has_sync
               THEN /\ bus' = ConsumerCommit([bus EXCEPT !.position = pos], pos)
                    /\ loop' = [loop EXCEPT !.events = IterationEvents(pre, cb, <<"commit">>)]
                    /\ UNCHANGED threads
               ELSE IF cfg.ignore_initial_delay /\ ~loop.seek_to_end
               THEN \* commit, seek_to_end, seek_to_end = True, break
                    /\ bus' = ConsumerSeekToEnd(ConsumerCommit([bus EXCEPT !.position = pos], pos))
                    /\ loop' = [SetSeekToEnd(created) EXCEPT !.events =
                                   IterationEvents(pre, cb, <<"commit", "seek_to_end", "break">>)]
                    /\ UNCHANGED threads
               ELSE IF cfg.seek_to_end
               THEN \* commit, seek_to_end, break
                    /\ bus' = ConsumerSeekToEnd(ConsumerCommit([bus EXCEPT !.position = pos], pos))
                    /\ loop' = [created EXCEPT !.events =
                                   IterationEvents(pre, cb, <<"commit", "seek_to_end", "break">>)]
                    /\ UNCHANGED threads
               ELSE LET check == IntervalElapsed(loop.backlog_time_prev)
                        samples == ~cfg.ignore_initial_delay /\ ~cfg.unify
                        r == Sampling(sync_type, current_camera_data', camera_id, fps')
                    IN
                    /\ threads' = IF check /\ cfg.unify
                                  THEN [threads EXCEPT !.sync = @ + 1]
                                  ELSE threads
                    /\ loop' = [created EXCEPT
                          !.backlog_time_prev = IF check THEN now ELSE @,
                          !.skip_count = IF samples /\ r.skip THEN r.amount ELSE 0,
                          !.sleep_until = IF samples /\ ~r.skip THEN now + r.amount
                                          ELSE @,
                          !.events = IterationEvents(pre, cb,
                             (IF check /\ cfg.unify THEN <<"spawn_synchronize">> ELSE <<>>)
                             \o (IF samples THEN <<"sampling">> ELSE <<>>)
                             \o <<"commit">>)]
                    /\ bus' = ConsumerCommit([bus EXCEPT !.position = pos], pos)
    /\ UNCHANGED <<sync_type, retention_time, latency_threshold, frame_seq, sync_raised,
                   delivered, now, cacheVars, tracker, auxVars, cfg, fed>>

\* The thread start() spawns for frame_sync.synchronize(self.callback): it
\* takes the synchronizer's lock, groups, hands the groups to the callback and
\* cleans the buffer, all inside `with self.lock`.
SyncEnter ==
    /\ threads.sync > 0
    /\ threads.lock = "free"
    /\ Synchronize
    /\ threads' = [threads EXCEPT !.sync = @ - 1, !.lock = "synchronize",
                                  !.callback = pass_log'.groups # <<>>]
    /\ UNCHANGED <<cacheVars, tracker, auxVars, cfg, bus, loop, frame_sequencing, processed, fed>>

\* synchronize returns (or raises) and the lock is released; until then the
\* thread is inside callback.callback if the pass has groups to deliver.
SyncExit ==
    /\ threads.lock = "synchronize"
    /\ threads' = [threads EXCEPT !.lock = "free", !.callback = FALSE]
    /\ UNCHANGED <<syncVars, now, cacheVars, tracker, auxVars, cfg, bus, loop, frame_sequencing,
                   processed, fed>>

\* The thread start() spawns for a sequencing drain, step by step: sequence(),
\* then next() and callback.callback(message) until next() returns None.
DrainSequence(w) ==
    /\ threads.drains[w].pc = "sequence"
    /\ frame_sequencing' = sequence(frame_sequencing)
    /\ threads' = [threads EXCEPT !.drains[w].pc = "next"]
    /\ UNCHANGED <<syncVars, now, cacheVars, tracker, auxVars, cfg, bus, loop, processed, fed>>

DrainNext(w) ==
    /\ threads.drains[w].pc = "next"
    /\ LET r == next(frame_sequencing) IN
       /\ frame_sequencing' = r.seq
       /\ threads' = [threads EXCEPT !.drains[w] =
                        IF r.msg = <<>> THEN NoDrain
                        ELSE [pc |-> "callback", msg |-> r.msg]]
    /\ UNCHANGED <<syncVars, now, cacheVars, tracker, auxVars, cfg, bus, loop, processed, fed>>

DrainCallback(w) ==
    /\ threads.drains[w].pc = "callback"
    /\ processed' = Append(processed, threads.drains[w].msg[1])
    /\ threads' = [threads EXCEPT !.drains[w] = [pc |-> "next", msg |-> <<>>]]
    /\ UNCHANGED <<syncVars, now, cacheVars, tracker, auxVars, cfg, bus, loop, frame_sequencing, fed>>

\* The state of the consumer variables when start() is entered at time 0 under
\* configuration c.
LoopInit(c) ==
    /\ cfg = c
    /\ bus = [topic |-> <<>>, position |-> 1, committed |-> 1]
    /\ loop = [frame_synchronization |-> FALSE, sequencing |-> FALSE, skip_count |-> 0,
               backlog_time_prev |-> 0, seq_check_time |-> 0, seek_to_end |-> FALSE,
               sleep_until |-> 0, state |-> "running", raised |-> "none",
               events |-> <<>>]
    /\ frame_sequencing = NewSequencer(c.backlog_check_interval, 0)
    /\ threads = [sync |-> 0, lock |-> "free", callback |-> FALSE,
                  drains |-> [w \in DrainWorkers |-> NoDrain]]
    /\ processed = <<>>
    /\ fed = [x \in LoopCameras |-> [count |-> 0, last |-> 0]]

NoConfig == [frame_sync_type |-> "none", unify |-> FALSE, enable_sequencing |-> FALSE,
             seek_to_end |-> FALSE, ignore_initial_delay |-> FALSE,
             backlog_check_interval |-> 0, key |-> "", metadata_ts |-> FALSE]

\* No consumer loop is running.
LoopIdle == LoopInit(NoConfig)

\* The state after FrameSyncService(config), for a configuration cfg.
SyncInit(type, cfg_fps, cfg_retention, cfg_latency) ==
    /\ sync_type = type
    /\ fps = cfg_fps
    /\ tolerance = 0
    /\ retention_time = cfg_retention
    /\ latency_threshold = cfg_latency
    /\ initial_camera_data = <<>>
    /\ current_camera_data = <<>>
    /\ frames_buffer = <<>>
    /\ frame_seq = NewSequencer(0, 0)
    /\ sync_raised = "none"
    /\ delivered = <<>>
    /\ pass_log = NoPass
    /\ next_id = 1

\* ------------------------------------------- timestamp synchronizer, driven
\* directly: any sequence of collect and synchronize calls, the clock running.
\* frame_number is carried along but never read by the timestamp grouping.
TsInit == /\ \E f \in {0, 2}, l \in {0, 1} : SyncInit("timestamp", f, 1, l)
          /\ now = 0
          /\ CacheInit
          /\ LoopIdle
          /\ TrackerIdle
          /\ AuxIdle

TsNext ==
    \/ \E c \in Cameras, t \in Timestamps, f \in FpsValues :
          /\ next_id <= MaxCollects
          /\ c \in DOMAIN initial_camera_data \cup NextCamera(DOMAIN initial_camera_data)
          /\ Collect(c, t, 1, f)
          /\ UNCHANGED <<cacheVars, tracker, auxVars, loopVars>>
    \/ CollectRaises /\ UNCHANGED <<cacheVars, tracker, auxVars, loopVars>>
    \/ Len(delivered) < MaxDelivered /\ Synchronize /\ UNCHANGED <<cacheVars, tracker, auxVars, loopVars>>
    \/ now < MaxNow /\ Tick /\ UNCHANGED <<cacheVars, tracker, auxVars, loopVars>>

TsSpec == TsInit /\ [][TsNext]_vars

\* --------------------------------------------- number synchronizer, driven
\* directly. The number service never reads the clock in collect, and its
\* cleanup either raises or drops every frame, so the clock stands still.
NumInit == /\ \E f \in {0, 2} : SyncInit("number", f, 1, 1)
           /\ now = 0
           /\ CacheInit
           /\ LoopIdle
          /\ TrackerIdle
          /\ AuxIdle

NumNext ==
    \/ \E c \in Cameras, t \in Timestamps, k \in FrameNumbers, f \in FpsValues :
          /\ next_id <= MaxCollects
          /\ c \in DOMAIN initial_camera_data \cup NextCamera(DOMAIN initial_camera_data)
          /\ Collect(c, t, k, f)
          /\ UNCHANGED <<cacheVars, tracker, auxVars, loopVars>>
    \/ Len(delivered) < MaxDelivered /\ Synchronize /\ UNCHANGED <<cacheVars, tracker, auxVars, loopVars>>

NumSpec == NumInit /\ [][NumNext]_vars

\* ------------------------------------------------ frame cache, driven directly
\* by the calls the tracker's two callbacks make on one camera's cache.
CacheSpecInit ==
    /\ SyncInit("timestamp", 0, 1, 1)
    /\ now = 0
    /\ CacheInit
    /\ LoopIdle
    /\ TrackerIdle
    /\ AuxIdle

CacheNext ==
    \/ \E c \in {"A"} : AddCamera(c) /\ UNCHANGED <<syncVars, now, loopVars, tracker, auxVars>>
    \/ \E c \in {"A"}, t \in 0..(MaxTs + 1) :
          /\ next_id <= MaxAdds
          /\ AddFrame(c, t, next_id)
          /\ next_id' = next_id + 1
          /\ UNCHANGED <<sync_type, fps, tolerance, retention_time, latency_threshold,
                         initial_camera_data, current_camera_data, frames_buffer,
                         frame_seq, sync_raised, delivered, pass_log, now, loopVars, tracker, auxVars>>
    \/ \E c \in {"A"}, t \in 0..(MaxTs + 2) :
          TakeBefore(c, t) /\ UNCHANGED <<syncVars, now, loopVars, tracker, auxVars>>
    \/ \E c \in {"A"}, f \in Timestamps, t \in 0..(MaxTs + 2) :
          TakeBetween(c, f, t) /\ UNCHANGED <<syncVars, now, loopVars, tracker, auxVars>>

CacheSpec == CacheSpecInit /\ [][CacheNext]_vars

\* ------------------------------------------- the tracker's two feed threads
\* interleaved step by step on the cache of one camera.
TrackerSpecInit ==
    /\ SyncInit("timestamp", 0, 1, 1)
    /\ now = 0
    /\ CacheInit
    /\ LoopIdle
    /\ TrackerIdle
    /\ AuxIdle

TrackerNext ==
    \/ \E f \in Feeds, t \in 1..(MaxCaptures + 1) :
          FeedReceive(f, t) /\ UNCHANGED <<syncVars, now, cache_log, loopVars, auxVars>>
    \/ \E f \in Feeds : AddCameraSet(f) /\ UNCHANGED <<syncVars, now, cache_log, loopVars, auxVars>>
    \/ \E f \in Feeds : GetFrameCache(f) /\ UNCHANGED <<syncVars, now, cache_log, loopVars, auxVars>>
    \/ AddFramePop /\ UNCHANGED <<syncVars, now, cache_log, loopVars, auxVars>>
    \/ AddFrameInsert /\ UNCHANGED <<syncVars, now, cache_log, loopVars, auxVars>>
    \/ AddFrameEvict /\ UNCHANGED <<syncVars, now, cache_log, loopVars, auxVars>>
    \/ ItemsIter /\ UNCHANGED <<syncVars, now, cache_log, loopVars, auxVars>>
    \/ IterNext /\ UNCHANGED <<syncVars, now, cache_log, loopVars, auxVars>>
    \/ RemoveKey /\ UNCHANGED <<syncVars, now, cache_log, loopVars, auxVars>>

TrackerSpec == TrackerSpecInit /\ [][TrackerNext]_vars

\* --------------------------------------------------------- consumer loop
\* with a synchronizer, in every configuration of unify, enable_sequencing,
\* seek_to_end, ignore_initial_delay and backlog_check_interval; frames are
\* produced by the cameras while the loop and its threads run.
LoopConfigs ==
    {c \in [frame_sync_type : {"timestamp", "number", "none"}, unify : BOOLEAN,
            enable_sequencing : BOOLEAN, seek_to_end : BOOLEAN,
            ignore_initial_delay : BOOLEAN, backlog_check_interval : {0, 1},
            key : {""}, metadata_ts : BOOLEAN] :
        c.metadata_ts => c.enable_sequencing}

LoopSpecInit ==
    /\ \E c \in LoopConfigs :
          /\ LoopInit(c)
          /\ SyncInit(c.frame_sync_type, 2, 1, 1)
    /\ now = 0
    /\ CacheInit
    /\ TrackerIdle
    /\ AuxIdle

LoopNext ==
    \/ \E c \in LoopCameras : Produce(c)
    \/ \E outcome \in Outcomes : LoopIteration(outcome)
    \/ Len(delivered) < MaxDelivered /\ SyncEnter
    \/ SyncExit
    \/ \E w \in DrainWorkers : DrainSequence(w)
    \/ \E w \in DrainWorkers : DrainNext(w)
    \/ \E w \in DrainWorkers : DrainCallback(w)
    \/ now < MaxNow /\ Tick /\ UNCHANGED <<cacheVars, tracker, auxVars, loopVars>>

LoopSpec == LoopSpecInit /\ [][LoopNext]_vars

\* ------------------------------------------- a sequencer called on its own
\* collect, sequence, next, collect_group, sequence_groups and next_group in
\* any order, with timestamps arriving in any order, while the clock advances.
SeqSpecInit ==
    /\ SyncInit("none", 0, 1, 1)
    /\ now = 0
    /\ CacheInit
    /\ \E d \in {0, 1} : LoopInit([NoConfig EXCEPT !.backlog_check_interval = d])
    /\ TrackerIdle
    /\ AuxIdle

SeqNext_ ==
    \/ \E t \in Timestamps : SeqCollect(t)
    \/ SeqSequence
    \/ SeqNext
    \/ \E t \in Timestamps : SeqCollectGroup(t)
    \/ SeqSequenceGroups
    \/ SeqNextGroup
    \/ now < MaxNow /\ Tick /\ UNCHANGED <<cacheVars, tracker, auxVars, loopVars>>

SeqSpec == SeqSpecInit /\ [][SeqNext_]_vars

\* ------------------------------------------------------ a capture callback
\* receiving control signals in any order while the executor's workers run
\* the submitted handlers at any speed.
CaptureSpecInit ==
    /\ SyncInit("none", 0, 1, 1)
    /\ now = 0
    /\ CacheInit
    /\ LoopIdle
    /\ TrackerIdle
    /\ AuxIdle

CaptureNext ==
    \/ \E signal \in Signals : CaptureCallback(signal)
    \/ \E i \in 1..MaxSignals : HandleSet(i)
    \/ \E i \in 1..MaxSignals : StartSetRunning(i)
    \/ \E i \in 1..MaxSignals, outcome \in {"continue", "finished", "error"} :
          StartIteration(i, outcome)
    \/ \E i \in 1..MaxSignals, outcome \in {"continue", "finished", "error"} :
          StartHoldOver(i, outcome)
    \/ \E i \in 1..MaxSignals : StartExit(i)

CaptureSpec == CaptureSpecInit /\ [][CaptureNext]_vars

\* ------------------------------------- consumer loop with sequencing on
\* The loop of LoopSpec in the configurations that sequence, with the
\* scheduling the threads get: the loop goes on reading while there is a
\* message, every spawned drain thread runs to its end, and time passes.
SeqLoopInit ==
    /\ \E c \in {x \in LoopConfigs : x.enable_sequencing /\ x.metadata_ts} :
          /\ LoopInit(c)
          /\ SyncInit(c.frame_sync_type, 2, 1, 1)
    /\ now = 0
    /\ CacheInit
    /\ TrackerIdle
    /\ AuxIdle

TickLoop == now < MaxNow /\ Tick /\ UNCHANGED <<cacheVars, tracker, auxVars, loopVars>>

SeqLoopNext ==
    \/ \E c \in LoopCameras : Produce(c)
    \/ \E outcome \in Outcomes : LoopIteration(outcome)
    \/ \E w \in DrainWorkers : DrainSequence(w)
    \/ \E w \in DrainWorkers : DrainNext(w)
    \/ \E w \in DrainWorkers : DrainCallback(w)
    \/ TickLoop

SeqLoopLive ==
    /\ SeqLoopInit /\ [][SeqLoopNext]_vars
    /\ WF_vars(\E outcome \in Outcomes : LoopIteration(outcome))
    /\ \A w \in DrainWorkers :
          WF_vars(DrainSequence(w)) /\ WF_vars(DrainNext(w)) /\ WF_vars(DrainCallback(w))
    /\ WF_vars(TickLoop)

\* ======================================================== properties
\* The grouping key of a group: its frame_number in number mode, its smallest
\* frame_timestamp in timestamp mode.
GroupKey(g) ==
    IF sync_type = "number" THEN g[1].frame_number
    ELSE SeqMin([k \in 1..Len(g) |-> g[k].frame_timestamp])

PassDone == pass_log.kind # "none"

\* The groups handed to the callback before the last pass.
DeliveredBefore == SubSeq(delivered, 1, Len(delivered) - Len(pass_log.groups))

DistinctCameras(g) ==
    \A i, j \in 1..Len(g) : i # j => g[i].camera_id # g[j].camera_id

\* No buffered frame of the last pass has frame_timestamp 0 (such a frame is
\* marked grouped = 0, which reads as not grouped).
NoZeroTimestamp ==
    \A j \in 1..Len(pass_log.before) : pass_log.before[j].frame_timestamp # 0

\* C1: within one synchronize pass the callback receives the completed groups
\* in ascending order of grouping key (checked on the passes whose frames all
\* have a non-zero timestamp, so that no frame is grouped twice).
C1_AscendingWithinPass ==
    (PassDone /\ NoZeroTimestamp) =>
        \A i, j \in 1..Len(pass_log.groups) :
            i < j => GroupKey(pass_log.groups[i]) <= GroupKey(pass_log.groups[j])

\* The frame numbers for which every camera seen so far has a buffered frame.
CompleteNumbers(buf, cams) ==
    {n \in {buf[j].frame_number : j \in 1..Len(buf)} :
        \A c \in cams : \E j \in 1..Len(buf) :
            buf[j].frame_number = n /\ buf[j].camera_id = c}

FramesWithNumber(buf, n) ==
    {Frame(buf[j]) : j \in {x \in 1..Len(buf) : buf[x].frame_number = n}}

\* C2: in number mode, a synchronize pass delivers, exactly once, the group of
\* every frame_number for which each camera seen so far has a buffered frame.
C2_NumberGroupsDelivered ==
    (PassDone /\ pass_log.kind = "number") =>
        \A n \in CompleteNumbers(pass_log.before, pass_log.cams) :
            Cardinality({i \in 1..Len(pass_log.groups) :
                SeqRange(pass_log.groups[i]) = FramesWithNumber(pass_log.before, n)}) = 1

\* C3: the camera_ids of every group marked complete or handed to the
\* callback are pairwise distinct.
C3_DistinctCameras ==
    PassDone =>
        /\ \A i \in 1..Len(pass_log.marked) : DistinctCameras(pass_log.marked[i])
        /\ \A i \in 1..Len(pass_log.groups) : DistinctCameras(pass_log.groups[i])

C5_AtMostOneGroup ==
    LET all == Concat(delivered) IN
    /\ \A i, j \in 1..Len(all) : i # j => all[i].id # all[j].id
    /\ PassDone =>
          \A i \in 1..Len(pass_log.submitted) :
              \A k \in 1..Len(pass_log.submitted[i]) :
                  \A j \in 1..Len(frames_buffer) :
                      frames_buffer[j].id # pass_log.submitted[i][k].id

\* No frame handed to the callback so far has frame_timestamp 0.
NoZeroDelivered ==
    \A i \in 1..Len(delivered) : \A k \in 1..Len(delivered[i]) :
        delivered[i][k].frame_timestamp # 0

\* The highest frame rate of a camera, in frames per second.
max_fps == CHOOSE f \in FpsValues : \A g \in FpsValues : g <= f

\* C6: the buffer of the synchronizer a consumer loop created never holds more
\* than |cameras| x (retention_time x max_fps) + |cameras| records, whatever
\* the configuration of unify and sequencing.
C6_BufferBounded ==
    loop.frame_synchronization =>
        LET n == Cardinality(DOMAIN initial_camera_data) IN
        Len(frames_buffer) <= n * ((retention_time * max_fps) \div TicksPerSec) + n

C8_SingleCameraGroups ==
    (PassDone /\ Cardinality(pass_log.cams) = 1) =>
        \A j \in 1..Len(pass_log.before) :
            \E i \in 1..Len(pass_log.groups) :
                pass_log.groups[i] = <<Frame(pass_log.before[j])>>

\* The frames of a per-camera cache whose key is < t, in ascending key order.
RECURSIVE InsertByKey(_, _)
InsertByKey(sorted, e) ==
    IF sorted = <<>> THEN <<e>>
    ELSE IF e.key < Head(sorted).key THEN <<e>> \o sorted
         ELSE <<Head(sorted)>> \o InsertByKey(Tail(sorted), e)

RECURSIVE SortedByKey(_)
SortedByKey(c) ==
    IF c = <<>> THEN <<>>
    ELSE InsertByKey(SortedByKey(SubSeq(c, 1, Len(c) - 1)), c[Len(c)])

FramesOf(c) == [j \in 1..Len(c) |-> c[j].frame]

\* C9: take_before(t) returns exactly the frames with timestamp < t present at
\* call time, in ascending timestamp order, and leaves exactly those with
\* timestamp >= t.
C9_TakeBeforeExact ==
    (cache_log.op = "take_before" /\ ~cache_log.raised) =>
        /\ cache_log.frames =
              FramesOf(SortedByKey(SelectSeq(cache_log.before, LAMBDA e : e.key < cache_log.t)))
        /\ SeqRange(cache[cache_log.camera_id]) =
              SeqRange(SelectSeq(cache_log.before, LAMBDA e : ~(e.key < cache_log.t)))

\* C10: when an add_frame makes the cache exceed max_size, the oldest entry
\* (the first inserted) is evicted and the entry just added is retained.
C10_EvictsOldest ==
    (/\ cache_log.op = "add_frame" /\ ~cache_log.raised
     /\ Len(cache_log.before) = max_size
     /\ cache_log.t \notin CacheKeys(cache_log.before)) =>
        LET c == cache[cache_log.camera_id] IN
        /\ Len(c) = max_size
        /\ c[Len(c)].key = cache_log.t
        /\ SubSeq(c, 1, Len(c) - 1) = Tail(cache_log.before)

\* C11: after any add_frame, in every reachable state, each per-camera cache
\* holds at most max_size entries.
C11_CacheWithinMaxSize ==
    \A c \in DOMAIN cache : Len(cache[c]) <= max_size

\* an add_frame of a new timestamp into a full cache has just returned
C11_Witness ==
    /\ cache_log.op = "add_frame" /\ ~cache_log.raised
    /\ Len(cache_log.before) = max_size
    /\ cache_log.t \notin CacheKeys(cache_log.before)
    /\ Len(cache[cache_log.camera_id]) = max_size

\* frames add_frame accepted that are no longer in the camera's registered
\* cache although no eviction removed them and no extraction took them
LostFrames ==
    LET here == IF TrackedCamera \in DOMAIN cache
                THEN {e.frame.payload : e \in SeqRange(cache[TrackedCamera])} ELSE {}
        taken == {fr.payload : fr \in SeqRange(tracker.feed["detection"].frames_to_return)}
    IN tracker.added \ (here \cup tracker.evicted \cup tracker.extracted \cup taken)

NoFeedFails == \A f \in Feeds : tracker.raised[f] = "none"

NoFrameLost == LostFrames = {}

\* C12: with the capture feed and the detection feed working concurrently on
\* one camera's cache, no cache operation fails and no added frame is lost
\* other than by eviction or extraction.
C12_CacheOperationsAtomic == NoFeedFails /\ NoFrameLost

\* start() has finished its work on one more message
MessageHandled == bus'.position # bus.position

\* C13: with unify on, whatever the other switches are, the callback never
\* receives an individual frame message, and every message handled when
\* backlog_check_interval has elapsed since the last check dispatches a
\* synchronization pass.
C13_UnifyOnlyGroups ==
    [][cfg.unify =>
          /\ processed' = processed
          /\ (MessageHandled /\ IntervalElapsed(loop.backlog_time_prev)) =>
                 threads'.sync = threads.sync + 1]_vars

\* the handling of the message ended in a synchronous callback.callback(message)
EndsInCallback == MessageHandled /\ ~cfg.enable_sequencing /\ processed' # processed

\* the handling of the message ended in the skip decision (skip_count > 0)
EndsInSkip == MessageHandled /\ ~cfg.enable_sequencing /\ loop.skip_count > 0

\* C14: a message whose handling ends in a synchronous callback or in a skip
\* decision has its offset committed before the next message is received.
C14_CommitAfterCallbackOrSkip ==
    [][(EndsInCallback \/ EndsInSkip) => bus'.committed = bus.position + 1]_vars

\* positions of an event in the record of the last iteration
EventAt(e) == {i \in 1..Len(loop.events) : loop.events[i] = e}

\* C15: on the non-sequencing path the offset commit of a message, the ones
\* of the ignore_initial_delay and seek_to_end policies included, never
\* comes before the synchronous callback for that message has returned.
C15_CommitAfterCallback ==
    ~cfg.enable_sequencing =>
        \A i \in EventAt("commit") \cup EventAt("seek_to_end"), j \in EventAt("callback") : j < i

\* a message was delivered synchronously and then committed by a seek policy
C15_Witness ==
    /\ ~cfg.enable_sequencing
    /\ EventAt("callback") # {} /\ EventAt("commit") # {} /\ EventAt("seek_to_end") # {}
    /\ bus.committed = processed[Len(processed)].id + 1

\* the record's value failed to deserialize, or callback.callback raised
MessageFailed == MessageHandled /\ loop'.raised \in {"DecodeError", "CallbackError"}

\* C16: when decoding or the downstream callback fails for a message, the
\* loop leaves the skip counter unchanged, still commits the message's offset
\* and goes on with the next message: the consumer is not closed.
C16_FailureIsSkipped ==
    [][MessageFailed =>
          /\ loop'.state = "running"
          /\ loop'.skip_count = loop.skip_count
          /\ bus'.committed = bus.position + 1]_vars

\* a background worker is inside callback.callback
WorkerInCallback ==
    \/ threads.lock = "synchronize" /\ threads.callback
    \/ \E w \in DrainWorkers : threads.drains[w].pc = "callback"

\* the loop is running and has a next message to receive
MessageWaiting ==
    /\ loop.state = "running"
    /\ bus.position <= Len(bus.topic)
    /\ now >= loop.sleep_until

\* C17: while a background worker is executing the downstream callback, the
\* loop can complete its steps for the next message without waiting for the
\* callback to return.
C17_LoopNeverWaitsForCallback ==
    (WorkerInCallback /\ MessageWaiting) => ENABLED LoopIteration("ok")

\* the messages of camera c handed one by one to the callback, in order
ProcessedOf(c) == SelectSeq(processed, LAMBDA m : m.camera_id = c)

\* C18: for each camera the callback receives that camera's messages in the
\* order in which they were consumed from the bus (the order of their
\* offsets), also when sequencing drains overlap.
C18_PerCameraOrder ==
    \A c \in LoopCameras :
        \A i, j \in 1..Len(ProcessedOf(c)) :
            i < j => ProcessedOf(c)[i].id < ProcessedOf(c)[j].id

\* seek_to_end on, sequencing and unify off
SeekToEndConfig == cfg.seek_to_end /\ ~cfg.enable_sequencing /\ ~cfg.unify

\* the message is handed to the callback, then its offset is committed, then
\* the position moves to the end of the topic
DeliverCommitSeek ==
    /\ processed' = Append(processed, bus.topic[bus.position])
    /\ bus'.committed = bus.position + 1
    /\ bus'.position = Len(bus.topic) + 1
    /\ SelectSeq(loop'.events, LAMBDA e : e # "collect")
          = <<"callback", "commit", "seek_to_end", "break">>

\* nothing reaches the callback except the message being handled, and the
\* position never moves back: a message the seek passed over is never
\* delivered
OnlyReceivedDelivered ==
    /\ bus'.position >= bus.position
    /\ delivered' = delivered
    /\ processed' # processed => MessageHandled

Seeks == MessageHandled /\ "seek_to_end" \in SeqRange(loop'.events)

\* the message reaches the synchronization step (line 212)
ReachesSyncStep ==
    /\ MessageHandled /\ ~MessageFailed
    /\ cfg.key = "" \/ cfg.key = bus.topic[bus.position].key
    /\ ~cfg.enable_sequencing /\ cfg.frame_sync_type # "none"
    /\ loop.skip_count = 0

\* C20: with ignore_initial_delay on and seek_to_end off, the commit and seek
\* to end is performed on the first message that reaches the synchronization
\* step and on no later one, and the loop resumes from the new position.
C20_InitialSeekOnce ==
    [][(cfg.ignore_initial_delay /\ ~cfg.seek_to_end) =>
          /\ Seeks => /\ ~loop.seek_to_end /\ loop'.seek_to_end
                      /\ bus'.committed = bus.position + 1
                      /\ bus'.position = Len(bus.topic) + 1
          /\ (ReachesSyncStep /\ ~loop.seek_to_end) => Seeks
          /\ loop.seek_to_end => loop'.seek_to_end]_vars

\* after the initial seek a later message was handled without a seek
C20_Witness ==
    /\ cfg.ignore_initial_delay /\ ~cfg.seek_to_end
    /\ loop.seek_to_end
    /\ bus.position = 4 /\ bus.committed = 4
    /\ "commit" \in SeqRange(loop.events) /\ "seek_to_end" \notin SeqRange(loop.events)

\* C21: start() is left only by an exception, which reaches the caller, and
\* whenever an exception has left start() the consumer has been closed.
C21_RaisedMeansClosed ==
    /\ loop.raised # "none" => loop.state = "closed"
    /\ loop.state = "closed" => loop.raised # "none"

\* a callback raised on the second message, after the first was processed
C21_Witness ==
    /\ loop.raised = "CallbackError" /\ loop.state = "closed"
    /\ Len(processed) = 1 /\ bus.position = 3

\* C22: in number mode sampling(camera_id) returns, with elapsed the last
\* frame_timestamp minus the camera's start_time, expected the floor of
\* elapsed x fps and delta = expected - the last frame_number: (delta, skip)
\* when delta >= 0 and (|delta| / fps, wait) when delta < 0.
C22_NumberSamplingByFloor ==
    sync_type = "number" =>
        \A c \in DOMAIN current_camera_data :
            LET data == current_camera_data[c]
                elapsed == data.frame_timestamp - initial_camera_data[c].start_time
                expected == (elapsed * fps) \div TicksPerSec
                delta == expected - data.frame_number
            IN NumSampling(data, fps) =
                  IF delta >= 0 THEN [amount |-> delta, skip |-> TRUE]
                  ELSE [amount |-> (Abs(delta) * TicksPerSec) \div fps, skip |-> FALSE]

C24_InitialDelayCapped ==
    [][(sync_type = "timestamp" /\ next_id' # next_id) =>
          LET e == frames_buffer'[Len(frames_buffer')]
              c == e.camera_id
              initial_delay == initial_camera_data'[c].initial_delay
          IN /\ c \notin DOMAIN initial_camera_data =>
                   initial_delay = Min2(latency_threshold, now - e.frame_timestamp)
             /\ initial_delay <= latency_threshold
             /\ \A x \in DOMAIN initial_camera_data :
                   initial_camera_data'[x] = initial_camera_data[x]
             /\ current_camera_data'[c].delay = now - e.frame_timestamp - initial_delay]_vars

\* C25: a number-mode synchronize pass never raises, whatever the buffer
\* holds, and leaves in the buffer exactly the records that are not grouped
\* and not older than retention_time, each bearing the entry_time of its
\* collect.
C25_NumberSynchronizeCompletes ==
    pass_log.kind = "number" =>
        /\ sync_raised = "none"
        /\ \A j \in 1..Len(frames_buffer) :
              /\ ~Truthy(frames_buffer[j].grouped)
              /\ frames_buffer[j].entry_time # Absent
              /\ now - frames_buffer[j].entry_time <= retention_time
        /\ \A j \in 1..Len(pass_log.before) :
              LET e == pass_log.before[j] IN
              (/\ ~\E g \in SeqRange(pass_log.marked) : \E m \in 1..Len(g) : g[m].id = e.id
               /\ e.entry_time # Absent
               /\ now - e.entry_time <= retention_time)
                  => \E k \in 1..Len(frames_buffer) : frames_buffer[k].id = e.id

\* Some known camera has no buffered frame within the tolerance of record e.
Starved(e, buf, cams, tol) ==
    \E c \in cams : \A k \in 1..Len(buf) :
        buf[k].camera_id = c => Abs(buf[k].frame_timestamp - e.frame_timestamp) > tol

\* The groups the pass formed that hold record e / that e anchors.
GroupsHolding(e) ==
    {g \in SeqRange(pass_log.marked) : \E m \in 1..Len(g) : g[m].id = e.id}

GroupsAnchoredAt(e) == {g \in SeqRange(pass_log.marked) : g[1].id = e.id}

InBuffer(e) == \E k \in 1..Len(frames_buffer) : frames_buffer[k].id = e.id

\* What a timestamp pass with two or more cameras does with the records the
\* pass left out of every group: kept while young, removed once older than
\* retention_time.
RetentionEvicts ==
    \A j \in 1..Len(pass_log.before) :
        LET e == pass_log.before[j] IN
        /\ (GroupsHolding(e) = {} /\ now - e.entry_time <= retention_time) => InBuffer(e)
        /\ now - e.entry_time > retention_time => ~InBuffer(e)

KeySeq(c) == [j \in 1..Len(c) |-> c[j].key]

C28_RemovesOnlyReturned ==
    (cache_log.op = "take_between" /\ ~cache_log.raised) =>
        \A j \in 1..Len(cache_log.before) :
            cache_log.before[j].frame \notin SeqRange(cache_log.frames)
                => cache_log.before[j] \in SeqRange(cache[cache_log.camera_id])

\* C29: add_frame(t, r) directly followed by add_frame(t, r') leaves exactly
\* one entry for t, holding r', at the last position, and the second call
\* does not change the number of entries.
C29_ReinsertMovesToEnd ==
    (cache_log.op = "add_frame" /\ cache_log.repeat) =>
        LET c == cache[cache_log.camera_id] IN
        /\ Cardinality({j \in 1..Len(c) : c[j].key = cache_log.t}) = 1
        /\ c[Len(c)].key = cache_log.t
        /\ c[Len(c)].frame.payload = next_id - 1
        /\ Len(c) = Len(cache_log.before)

\* C30: take_before(t) directly followed by take_before(t) returns nothing
\* the second time and leaves the cache as it was, whatever the order of the
\* entries.
C30_TakeBeforeTwice ==
    (cache_log.op = "take_before" /\ cache_log.repeat) =>
        /\ cache_log.frames = <<>>
        /\ cache[cache_log.camera_id] = cache_log.before

\* the second take_before(t) ran on a cache that is not in timestamp order and
\* still holds an entry older than t
C30_Witness ==
    /\ cache_log.op = "take_before" /\ cache_log.repeat
    /\ \E i, j \in 1..Len(cache_log.before) :
          i < j /\ cache_log.before[i].key > cache_log.before[j].key
    /\ \E j \in 1..Len(cache_log.before) : cache_log.before[j].key < cache_log.t

\* C31: a take_before or take_between for a camera that was never added is
\* not an error: it returns an empty list (and the cache stays as it was).
C31_UnknownCameraReturnsEmpty ==
    (/\ cache_log.op \in {"take_before", "take_between"}
     /\ cache_log.camera_id \notin DOMAIN cache) =>
        /\ ~cache_log.raised
        /\ cache_log.frames = <<>>

\* The entries of a buffer are in ascending frame_timestamp order, and entries
\* with the same timestamp are in collection order (messages are numbered as
\* they are collected).
AscendingStable(buf) ==
    \A i, j \in 1..Len(buf) :
        i < j => \/ buf[i].frame_timestamp < buf[j].frame_timestamp
                 \/ /\ buf[i].frame_timestamp = buf[j].frame_timestamp
                    /\ buf[i].message.id < buf[j].message.id

NoDuplicates(q) == \A i, j \in 1..Len(q) : i # j => q[i] # q[j]

\* C32: after sequence() the output queue holds exactly the records that were
\* in the in-buffer, ascending by frame_timestamp and in collection order for
\* equal timestamps, and the in-buffer is empty; next() returns the head of
\* the output queue and removes it, and returns nil when the queue is empty;
\* no record is returned twice.
C32_SequenceThenNext ==
    /\ seq_call.op = "sequence" =>
          /\ AscendingStable(frame_sequencing.temp_buffer)
          /\ SeqRange(frame_sequencing.temp_buffer) = SeqRange(seq_call.before.frames_buffer)
          /\ Len(frame_sequencing.temp_buffer) = Len(seq_call.before.frames_buffer)
          /\ frame_sequencing.frames_buffer = <<>>
    /\ seq_call.op = "next" =>
          IF seq_call.before.temp_buffer = <<>>
          THEN seq_call.msg = <<>> /\ frame_sequencing = seq_call.before
          ELSE /\ seq_call.msg = <<Head(seq_call.before.temp_buffer).message>>
               /\ frame_sequencing.temp_buffer = Tail(seq_call.before.temp_buffer)
    /\ NoDuplicates(processed)

\* sequence() has just sorted records that were collected out of timestamp
\* order, two of them with the same timestamp.
C32_Witness ==
    /\ seq_call.op = "sequence"
    /\ Len(frame_sequencing.temp_buffer) = 3
    /\ frame_sequencing.temp_buffer # seq_call.before.frames_buffer
    /\ \E i \in 1..2 : frame_sequencing.temp_buffer[i].frame_timestamp =
                          frame_sequencing.temp_buffer[i + 1].frame_timestamp

\* C33: a sequence() made with no collect since the sequence() before it
\* leaves the sequencer as it was, so that next() goes on returning what the
\* first call made available.
C33_SequenceIdempotent ==
    (seq_call.op = "sequence" /\ seq_call.repeat) =>
        frame_sequencing = seq_call.before

\* C34: a sequence() made with no collect since the sequence() before it makes
\* no record available that the first call had not made available, and no
\* record is returned twice by next().
C34_NoAdditionalOutput ==
    /\ (seq_call.op = "sequence" /\ seq_call.repeat) =>
          SeqRange(frame_sequencing.temp_buffer) \subseteq
              SeqRange(seq_call.before.temp_buffer)
    /\ \A i, j \in 1..Len(processed) : i < j => processed[i].id # processed[j].id

\* The second sequence() is made after the output of the first was returned
\* by next().
C34_Witness ==
    /\ seq_call.op = "sequence" /\ seq_call.repeat
    /\ Len(processed) >= 2

\* C37: sequence_groups() returns with the mutex released, whether or not
\* duration has elapsed since last_sequence_time.
C37_SequenceGroupsReleases ==
    seq_call.op = "sequence_groups" => frame_sequencing.lock = "free"

\* C35: a collect on a timestamp synchronizer leaves it with a positive fps
\* and tolerance = 1/fps: configured fps 0 is replaced by the fps of the
\* first message, and once fps and tolerance are set no collect changes them.
C35_ToleranceFixedAtFirstFps ==
    [][(next_id' # next_id \/ sync_raised' = "ZeroDivisionError") =>
          /\ sync_raised' # "ZeroDivisionError"
          /\ fps' > 0
          /\ tolerance' = TicksPerSec \div fps'
          /\ fps # 0 => fps' = fps
          /\ tolerance # 0 => tolerance' = tolerance]_vars

\* The configuration of C38: a synchronizer, no sequencing, no unify, no
\* ignore_initial_delay, no seek_to_end.
SamplingConfig ==
    /\ cfg.frame_sync_type # "none"
    /\ ~cfg.enable_sequencing /\ ~cfg.unify
    /\ ~cfg.ignore_initial_delay /\ ~cfg.seek_to_end

InEvents(e) == \E k \in 1..Len(loop'.events) : loop'.events[k] = e

\* C38: while the skip counter is positive the message read is not handed to
\* the callback, not collected and not sampled, and the counter goes down by
\* one; with the counter at 0 the message is collected, delivered and sampled,
\* and the counter becomes the number of frames sampling asks to skip (0 when
\* it asks to wait); the counter is never negative.
C38_SkipAfterSampling ==
    [][(SamplingConfig /\ bus'.position = bus.position + 1 /\ loop'.raised = "none") =>
          /\ loop.skip_count >= 0 /\ loop'.skip_count >= 0
          /\ IF loop.skip_count > 0
             THEN /\ processed' = processed
                  /\ next_id' = next_id
                  /\ frames_buffer' = frames_buffer
                  /\ ~InEvents("sampling") /\ ~InEvents("callback")
                  /\ loop'.skip_count = loop.skip_count - 1
             ELSE /\ processed' = Append(processed, bus.topic[bus.position])
                  /\ next_id' = next_id + 1
                  /\ InEvents("sampling")
                  /\ LET r == Sampling(sync_type, current_camera_data',
                                       bus.topic[bus.position].camera_id, fps')
                     IN loop'.skip_count = IF r.skip THEN r.amount ELSE 0]_vars

\* A message has been skipped and the one after it delivered.
C38_Witness ==
    /\ SamplingConfig
    /\ loop.skip_count = 0
    /\ Len(processed) = 2
    /\ bus.position = 4
    /\ loop.raised = "none"

\* The messages a drain worker has taken with next() and not yet handed to
\* the callback.
InHand == {threads.drains[w].msg[1] : w \in {x \in DrainWorkers : threads.drains[x].msg # <<>>}}

\* The messages the sequencer holds in its in-buffer or its output queue.
InSequencer ==
    {e.message : e \in SeqRange(frame_sequencing.frames_buffer)
                       \cup SeqRange(frame_sequencing.temp_buffer)}

\* C36: with sequencing on, every message the loop has handed to the
\* sequencer is in the sequencer, in the hand of a drain worker or has been
\* delivered to the callback, and no message is delivered twice.
C36_CollectedDeliveredOnce ==
    (cfg.enable_sequencing /\ cfg.metadata_ts /\ loop.raised = "none") =>
        /\ \A k \in 1..(bus.position - 1) :
              bus.topic[k] \in InSequencer \cup InHand \cup SeqRange(processed)
        /\ \A i, j \in 1..Len(processed) : i # j => processed[i] # processed[j]

\* Message k of the topic is in the sequencer's in-buffer.
InBufferOfSequencer(k) ==
    /\ k <= Len(bus.topic)
    /\ \E e \in SeqRange(frame_sequencing.frames_buffer) : e.message = bus.topic[k]

\* C39, for backlog_check_interval = 0: a message the loop has handed to the
\* sequencer does not stay in its in-buffer forever (it leaves the in-buffer
\* on its way to the callback, or the loop ends with an exception).
C39_LeavesInBuffer ==
    \A k \in 1..MaxMessages :
        (cfg.backlog_check_interval = 0 /\ InBufferOfSequencer(k))
            ~> (~InBufferOfSequencer(k) \/ loop.raised # "none")

\* The handle_start tasks that are inside their capture loop.
ActiveLoops == {i \in 1..Len(capture.tasks) : InCaptureLoop(capture, i)}

\* C40: at most one handle_start capture loop is active at any time.
C40_OneCaptureLoop == Cardinality(ActiveLoops) <= 1

====
